---- MODULE Spec2Model ----
(***************************************************************************)
(* The aggregate functions of fuse-query                                   *)
(* (src/src/functions/function_aggregator.rs): AggregatorFunction with its *)
(* fields depth, op and state, and its methods try_create, set_depth,      *)
(* accumulate, accumulate_result, merge and merge_result.                  *)
(*                                                                         *)
(* The datavalues crate module the methods call into                       *)
(* (data_value_arithmetic_op, data_value_aggregate_op,                     *)
(* data_array_aggregate_op, DataColumnarValue::to_array) is modelled from  *)
(* the description of the operator dispatch in spec.md, sections 4.1, 6.   *)
(***************************************************************************)
EXTENDS Integers, Sequences, FiniteSets, TLC

(***************************************************************************)
(* Bounds of the model.                                                    *)
(***************************************************************************)
\* Significand width of the modelled Float64 (f64 has 53 bits; the model
\* keeps the rounding and scales the width down).
MantissaBits == 3
\* Longest column of a generated block.
MaxRows == 2
\* Largest depth set_depth is called with; states has up to MaxDepth + 1
\* elements.
MaxDepth == 2
\* Largest number a run lets a state or the count of accumulated rows reach.
MaxTotal == 8
\* Blocks a pipeline delivers to its partitions.
MaxBatches == 3

(***************************************************************************)
(* DataValue: the scalar of the engine.  Null is the spec's Empty and      *)
(* Struct the spec's Composite.  A Float64 is the fraction n/d in lowest   *)
(* terms (values are never negative here).                                 *)
(***************************************************************************)
Null == [tag |-> "Null"]

UInt64(x) == [tag |-> "UInt64", v |-> x]

RECURSIVE GCD(_, _)
GCD(a, b) == IF b = 0 THEN a ELSE GCD(b, a % b)

Float64(num, den) ==
    LET g == GCD(num, den)
    IN  [tag |-> "Float64", n |-> num \div g, d |-> den \div g]

Struct(values) == [tag |-> "Struct", vs |-> values]

IsNumeric(x) == x.tag \in {"UInt64", "Float64"}

RECURSIVE Pow2(_)
Pow2(k) == IF k = 0 THEN 1 ELSE 2 * Pow2(k - 1)

\* The power of two by which an integer of the magnitude of x is spaced in a
\* format of MantissaBits significant bits.
RECURSIVE Ulp(_, _)
Ulp(x, q) == IF x < q * Pow2(MantissaBits) THEN q ELSE Ulp(x, 2 * q)

\* Round to nearest, ties to even, of a non-negative integer.
RoundToBits(x) ==
    LET q  == Ulp(x, 1)
        lo == (x \div q) * q
        r  == x - lo
    IN  IF 2 * r < q THEN lo
        ELSE IF 2 * r > q THEN lo + q
        ELSE IF (x \div q) % 2 = 0 THEN lo ELSE lo + q

\* The result of a floating operation whose exact value is num/den: integers
\* are rounded to the significand width, proper fractions are kept exact.
RoundFloat(num, den) ==
    LET f == Float64(num, den)
    IN  IF f.d = 1 THEN Float64(RoundToBits(f.n), 1) ELSE f

\* Promotion of a numeric value to the common representation Float64.
ToFloat64(x) == IF x.tag = "UInt64" THEN RoundFloat(x.v, 1) ELSE x

Ok(x) == [ok |-> TRUE, v |-> x]

Err == [ok |-> FALSE, v |-> Null]

(***************************************************************************)
(* data_value_arithmetic_op (spec.md 4.1, arithmetic): Add and Div over    *)
(* two scalars.  Null is the identity of Add (the initial state of Sum);   *)
(* two UInt64 stay UInt64, mixed numerics are promoted to Float64; a       *)
(* Struct, or Null under Div, is a type mismatch; division by zero fails.  *)
(***************************************************************************)
data_value_arithmetic_op(aop, left, right) ==
    IF aop = "Add" /\ left.tag = "Null" THEN Ok(right)
    ELSE IF aop = "Add" /\ right.tag = "Null" THEN Ok(left)
    ELSE IF ~(IsNumeric(left) /\ IsNumeric(right)) THEN Err
    ELSE IF left.tag = "UInt64" /\ right.tag = "UInt64"
    THEN IF aop = "Add" THEN Ok(UInt64(left.v + right.v))
         ELSE IF right.v = 0 THEN Err
         ELSE Ok(UInt64(left.v \div right.v))
    ELSE LET a == ToFloat64(left)
             b == ToFloat64(right)
         IN  IF aop = "Add"
             THEN Ok(RoundFloat(a.n * b.d + b.n * a.d, a.d * b.d))
             ELSE IF b.n = 0 THEN Err
             ELSE Ok(RoundFloat(a.n * b.d, a.d * b.n))

(***************************************************************************)
(* data_value_aggregate_op (spec.md 4.1, aggregate_binary): Min and Max of *)
(* two scalars with Null as identity; numerics of different variants are   *)
(* compared in the common representation.                                  *)
(***************************************************************************)
data_value_aggregate_op(gop, left, right) ==
    IF left.tag = "Null" THEN Ok(right)
    ELSE IF right.tag = "Null" THEN Ok(left)
    ELSE IF ~(IsNumeric(left) /\ IsNumeric(right)) THEN Err
    ELSE IF left.tag = "UInt64" /\ right.tag = "UInt64"
    THEN IF gop = "Min"
         THEN Ok(IF left.v <= right.v THEN left ELSE right)
         ELSE Ok(IF left.v >= right.v THEN left ELSE right)
    ELSE LET a == ToFloat64(left)
             b == ToFloat64(right)
             le == a.n * b.d <= b.n * a.d
         IN  IF gop = "Min"
             THEN Ok(IF le THEN a ELSE b)
             ELSE Ok(IF le THEN b ELSE a)

(***************************************************************************)
(* data_array_aggregate_op (spec.md 4.1, aggregate_reduce): a column array *)
(* reduced to one scalar, Null for the empty array.  An array is a         *)
(* sequence of numeric scalars of one variant.                             *)
(***************************************************************************)
RECURSIVE ReduceFrom(_, _, _)
ReduceFrom(gop, acc, array) ==
    IF array = <<>> \/ ~acc.ok THEN acc
    ELSE ReduceFrom(gop,
                    IF gop = "Sum"
                    THEN data_value_arithmetic_op("Add", acc.v, Head(array))
                    ELSE data_value_aggregate_op(gop, acc.v, Head(array)),
                    Tail(array))

data_array_aggregate_op(gop, array) == ReduceFrom(gop, Ok(Null), array)

(***************************************************************************)
(* DataColumnarValue and to_array (spec.md 6): what the argument           *)
(* expression evaluates to over a block, either an array with one value    *)
(* per row or a constant, materialized into an array view of n rows.       *)
(***************************************************************************)
ColumnArray(values) == [kind |-> "Array", xs |-> values]

ColumnScalar(x) == [kind |-> "Scalar", xs |-> <<x>>]

to_array(val, n) ==
    IF val.kind = "Scalar" THEN Ok([i \in 1..n |-> val.xs[1]])
    ELSE IF n <= Len(val.xs) THEN Ok(SubSeq(val.xs, 1, n))
    ELSE Err

(***************************************************************************)
(* AggregatorFunction.  An instance is the record of its fields; a method  *)
(* returns the instance it leaves and how it ended: "Ok", "Err" (the Err   *)
(* of FuseQueryResult) or "Panic" (an index out of bounds, which aborts).  *)
(***************************************************************************)
Operators == {"Count", "Min", "Max", "Sum", "Avg"}

NoInstance == [depth |-> 0, op |-> "None", arg |-> "None", state |-> Null]

Done(self) == [res |-> "Ok", self |-> self]

Failed(self) == [res |-> "Err", self |-> self]

Panicked(self) == [res |-> "Panic", self |-> self]

\* FuseQueryError::Internal with the message of try_create, the operator
\* formatted into it.
Internal(op) ==
    [kind |-> "Internal",
     text |-> <<"Aggregator function ", op, " args require single argument">>]

\* What a failed construction returns: the error and no instance.
NotCreated(op) == [res |-> "Err", self |-> NoInstance, err |-> Internal(op)]

\* try_create with the bug of rejecting only the empty argument list.
try_create_unless_empty(op, args) ==
    IF Len(args) < 1 THEN NotCreated(op)
    ELSE LET state == CASE op = "Count" -> UInt64(0)
                        [] op = "Avg" -> Struct(<<Float64(0, 1), UInt64(0)>>)
                        [] OTHER -> Null
         IN  Done([depth |-> 0, op |-> op, arg |-> args[1], state |-> state])

\* try_create with the bug of a Sum that starts from zero, as Count does.
try_create_sum_from_zero(op, args) ==
    IF Len(args) # 1 THEN NotCreated(op)
    ELSE LET state == CASE op \in {"Count", "Sum"} -> UInt64(0)
                        [] op = "Avg" -> Struct(<<Float64(0, 1), UInt64(0)>>)
                        [] OTHER -> Null
         IN  Done([depth |-> 0, op |-> op, arg |-> args[1], state |-> state])

try_create(op, args) ==
    IF Len(args) # 1 THEN NotCreated(op)
    ELSE LET state == CASE op = "Count" -> UInt64(0)
                        [] op = "Avg" -> Struct(<<Float64(0, 1), UInt64(0)>>)
                        [] OTHER -> Null
         IN  Done([depth |-> 0, op |-> op, arg |-> args[1], state |-> state])

\* A schema: the columns an expression can be typed over, with their types.
Schemas == {[x |-> "UInt64"], [y |-> "Float64"]}

\* self.arg.return_type(input_schema): the type of the column the argument
\* names, an error when the schema has no such column.
return_type(self, input_schema) ==
    IF self.arg \in DOMAIN input_schema
    THEN [res |-> "Ok", v |-> input_schema[self.arg]]
    ELSE [res |-> "Err", v |-> Null]

nullable(self, input_schema) == [res |-> "Ok", v |-> FALSE]

try_create_count_func(args) == try_create("Count", args)

try_create_max_func(args) == try_create("Max", args)

try_create_min_func(args) == try_create("Min", args)

try_create_sum_func(args) == try_create("Sum", args)

try_create_avg_func(args) == try_create("Avg", args)

\* The factory of an operator.
Factory(op, args) ==
    CASE op = "Count" -> try_create_count_func(args)
      [] op = "Max" -> try_create_max_func(args)
      [] op = "Min" -> try_create_min_func(args)
      [] op = "Sum" -> try_create_sum_func(args)
      [] op = "Avg" -> try_create_avg_func(args)

\* set_depth with the bug of starting the state over.
set_depth_resets_state(self, depth) ==
    [self EXCEPT !.depth = depth, !.state = Null]

set_depth(self, depth) == [self EXCEPT !.depth = depth]

\* A block as accumulate sees it: its number of rows and what the argument
\* expression evaluates to over it (Err when the evaluation fails).
Block(rows, val) == [rows |-> rows, val |-> val]

\* Assign with the bug of storing the value before looking at the error.
AssignThenFail(self, r) ==
    IF r.ok THEN Done([self EXCEPT !.state = r.v])
    ELSE Failed([self EXCEPT !.state = r.v])

\* state = v? : the assignment happens only when v is not an error.
Assign(self, r) ==
    IF r.ok THEN Done([self EXCEPT !.state = r.v]) ELSE Failed(self)

\* f(to_array(n)?)? of the array reduction.
Reduced(gop, val, n) ==
    LET array == to_array(val, n)
    IN  IF array.ok THEN data_array_aggregate_op(gop, array.v) ELSE Err

\* The fold data_value_*_op(op, state, reduced?)? .
Folded(kind, op, left, reduced) ==
    IF ~reduced.ok THEN Err
    ELSE IF kind = "arithmetic" THEN data_value_arithmetic_op(op, left, reduced.v)
    ELSE data_value_aggregate_op(op, left, reduced.v)

accumulate_avg(self, rows, val) ==
    IF self.state.tag # "Struct" THEN Done(self)
    ELSE LET values == self.state.vs
         IN  IF Len(values) < 1 THEN Panicked(self)
             ELSE LET sum == Folded("arithmetic", "Add", values[1],
                                    Reduced("Sum", val, 1))
                  IN  IF ~sum.ok THEN Failed(self)
                      ELSE IF Len(values) < 2 THEN Panicked(self)
                      ELSE LET count == data_value_arithmetic_op(
                                            "Add", values[2], UInt64(rows))
                           IN  IF ~count.ok THEN Failed(self)
                               ELSE Done([self EXCEPT
                                          !.state = Struct(<<sum.v, count.v>>)])

\* accumulate with the bug of a Count arm that counts calls, not rows.
accumulate_count_calls(self, block) ==
    LET rows == block.rows
        val  == block.val
    IN  IF ~val.ok THEN Failed(self)
        ELSE CASE self.op = "Count" ->
                    Assign(self, data_value_arithmetic_op(
                                     "Add", self.state, UInt64(1)))
               [] self.op = "Min" ->
                    Assign(self, Folded("aggregate", "Min", self.state,
                                        Reduced("Min", val.v, rows)))
               [] self.op = "Max" ->
                    Assign(self, Folded("aggregate", "Max", self.state,
                                        Reduced("Max", val.v, rows)))
               [] self.op = "Sum" ->
                    Assign(self, Folded("arithmetic", "Add", self.state,
                                        Reduced("Sum", val.v, rows)))
               [] self.op = "Avg" -> accumulate_avg(self, rows, val.v)

accumulate(self, block) ==
    LET rows == block.rows
        val  == block.val
    IN  IF ~val.ok THEN Failed(self)
        ELSE CASE self.op = "Count" ->
                    Assign(self, data_value_arithmetic_op(
                                     "Add", self.state, UInt64(rows)))
               [] self.op = "Min" ->
                    Assign(self, Folded("aggregate", "Min", self.state,
                                        Reduced("Min", val.v, rows)))
               [] self.op = "Max" ->
                    Assign(self, Folded("aggregate", "Max", self.state,
                                        Reduced("Max", val.v, rows)))
               [] self.op = "Sum" ->
                    Assign(self, Folded("arithmetic", "Add", self.state,
                                        Reduced("Sum", val.v, rows)))
               [] self.op = "Avg" -> accumulate_avg(self, rows, val.v)

\* accumulate_result with the bug of shipping nothing for a Null state.
accumulate_result_skips_null(self) ==
    IF self.state = Null THEN <<>> ELSE <<self.state>>

accumulate_result(self) == <<self.state>>

\* merge_avg with the bug of keeping the old count.
merge_avg_keeps_count(self, val) ==
    IF ~(val.tag = "Struct" /\ self.state.tag = "Struct") THEN Done(self)
    ELSE LET new_states == val.vs
             old_states == self.state.vs
         IN  IF Len(new_states) < 1 \/ Len(old_states) < 1 THEN Panicked(self)
             ELSE LET sum == data_value_arithmetic_op(
                                 "Add", new_states[1], old_states[1])
                  IN  IF ~sum.ok THEN Failed(self)
                      ELSE IF Len(new_states) < 2 \/ Len(old_states) < 2
                      THEN Panicked(self)
                      ELSE Done([self EXCEPT
                                 !.state = Struct(<<sum.v, old_states[2]>>)])

\* merge_avg with the bug of storing the elements of the partial beyond
\* the second after the sum and the count.
merge_avg_keeps_rest(self, val) ==
    IF ~(val.tag = "Struct" /\ self.state.tag = "Struct") THEN Done(self)
    ELSE LET new_states == val.vs
             old_states == self.state.vs
         IN  IF Len(new_states) < 1 \/ Len(old_states) < 1 THEN Panicked(self)
             ELSE LET sum == data_value_arithmetic_op(
                                 "Add", new_states[1], old_states[1])
                  IN  IF ~sum.ok THEN Failed(self)
                      ELSE IF Len(new_states) < 2 \/ Len(old_states) < 2
                      THEN Panicked(self)
                      ELSE LET count == data_value_arithmetic_op(
                                            "Add", new_states[2], old_states[2])
                           IN  IF ~count.ok THEN Failed(self)
                               ELSE Done([self EXCEPT !.state =
                                       Struct(<<sum.v, count.v>>
                                              \o SubSeq(new_states, 3,
                                                        Len(new_states)))])

merge_avg(self, val) ==
    IF ~(val.tag = "Struct" /\ self.state.tag = "Struct") THEN Done(self)
    ELSE LET new_states == val.vs
             old_states == self.state.vs
         IN  IF Len(new_states) < 1 \/ Len(old_states) < 1 THEN Panicked(self)
             ELSE LET sum == data_value_arithmetic_op(
                                 "Add", new_states[1], old_states[1])
                  IN  IF ~sum.ok THEN Failed(self)
                      ELSE IF Len(new_states) < 2 \/ Len(old_states) < 2
                      THEN Panicked(self)
                      ELSE LET count == data_value_arithmetic_op(
                                            "Add", new_states[2], old_states[2])
                           IN  IF ~count.ok THEN Failed(self)
                               ELSE Done([self EXCEPT
                                          !.state = Struct(<<sum.v, count.v>>)])

\* merge_with with the bug of a Sum arm copied from the Max arm.
merge_with_sum_as_max(self, val) ==
    CASE self.op = "Count" ->
           Assign(self, data_value_arithmetic_op("Add", self.state, val))
      [] self.op = "Min" ->
           Assign(self, data_value_aggregate_op("Min", self.state, val))
      [] self.op = "Max" ->
           Assign(self, data_value_aggregate_op("Max", self.state, val))
      [] self.op = "Sum" ->
           Assign(self, data_value_aggregate_op("Max", self.state, val))
      [] self.op = "Avg" -> merge_avg(self, val)

\* merge_with with the bug of a Min arm copied from the Max arm.
merge_with_min_as_max(self, val) ==
    CASE self.op = "Count" ->
           Assign(self, data_value_arithmetic_op("Add", self.state, val))
      [] self.op = "Min" ->
           Assign(self, data_value_aggregate_op("Max", self.state, val))
      [] self.op = "Max" ->
           Assign(self, data_value_aggregate_op("Max", self.state, val))
      [] self.op = "Sum" ->
           Assign(self, data_value_arithmetic_op("Add", self.state, val))
      [] self.op = "Avg" -> merge_avg(self, val)

\* The fold of merge by operator, val being states[self.depth].
merge_with(self, val) ==
    CASE self.op = "Count" ->
           Assign(self, data_value_arithmetic_op("Add", self.state, val))
      [] self.op = "Min" ->
           Assign(self, data_value_aggregate_op("Min", self.state, val))
      [] self.op = "Max" ->
           Assign(self, data_value_aggregate_op("Max", self.state, val))
      [] self.op = "Sum" ->
           Assign(self, data_value_arithmetic_op("Add", self.state, val))
      [] self.op = "Avg" -> merge_avg(self, val)

\* merge with the bug of reading the first element whatever the depth.
merge_first(self, states) ==
    IF self.depth >= Len(states) THEN Panicked(self)
    ELSE merge_with(self, states[1])

\* merge with the bug of a checked access that returns an error when the
\* depth is out of range.
merge_checked(self, states) ==
    IF self.depth >= Len(states) THEN Failed(self)
    ELSE merge_with(self, states[self.depth + 1])

\* states is indexed from 1 here, so states[self.depth] of the code is
\* states[self.depth + 1].
merge(self, states) ==
    IF self.depth >= Len(states) THEN Panicked(self)
    ELSE merge_with(self, states[self.depth + 1])

\* merge_result with the bug of an Avg arm that returns the state as the
\* other operators do.
merge_result_verbatim(self) == [res |-> "Ok", v |-> self.state]

\* merge_result with the bug of an Avg arm that turns a failed division
\* into the value Null.
merge_result_null_on_error(self) ==
    IF self.op = "Avg" /\ self.state.tag = "Struct"
    THEN LET states == self.state.vs
         IN  IF Len(states) < 2 THEN [res |-> "Panic", v |-> Null]
             ELSE LET q == data_value_arithmetic_op("Div", states[1], states[2])
                  IN  [res |-> "Ok", v |-> q.v]
    ELSE [res |-> "Ok", v |-> self.state]

\* The result of merge_result: how it ended and, when "Ok", the value.
merge_result(self) ==
    IF self.op = "Avg" /\ self.state.tag = "Struct"
    THEN LET states == self.state.vs
         IN  IF Len(states) < 2 THEN [res |-> "Panic", v |-> Null]
             ELSE LET q == data_value_arithmetic_op("Div", states[1], states[2])
                  IN  IF q.ok THEN [res |-> "Ok", v |-> q.v]
                      ELSE [res |-> "Err", v |-> Null]
    ELSE [res |-> "Ok", v |-> self.state]

(***************************************************************************)
(* The inputs of the calls.                                                *)
(***************************************************************************)
\* The values of a column, by variant.
ColumnValues(ty) ==
    IF ty = "UInt64" THEN {UInt64(1), UInt64(8)}
    ELSE {Float64(1, 1), Float64(8, 1)}

Arrays(len) ==
    UNION {[1..len -> ColumnValues(ty)] : ty \in {"UInt64", "Float64"}}

\* The blocks of the examples of spec.md section 8: the values [2, 4, 6],
\* a 5-row batch and a 3-row batch.
ExampleBlocks ==
    {Block(3, Ok(ColumnArray(<<UInt64(2), UInt64(4), UInt64(6)>>))),
     Block(5, Ok(ColumnArray([i \in 1..5 |-> UInt64(1)]))),
     Block(3, Ok(ColumnArray([i \in 1..3 |-> UInt64(1)])))}

Blocks ==
    {Block(Len(xs), Ok(ColumnArray(xs))) :
        xs \in UNION {Arrays(len) : len \in 0..MaxRows}}
    \cup {Block(rows, Ok(ColumnScalar(UInt64(8)))) : rows \in 0..MaxRows}
    \cup {Block(1, Err)}
    \cup ExampleBlocks

\* Partial states a coordinator may be handed: every variant, and Structs
\* of every arity.
PartialValues ==
    {Null, UInt64(3), UInt64(4), Float64(2, 1),
     Struct(<<Float64(2, 1), UInt64(1)>>),
     Struct(<<Struct(<<>>), UInt64(1)>>),
     Struct(<<>>),
     Struct(<<UInt64(1)>>),
     Struct(<<Float64(2, 1), UInt64(1), UInt64(1)>>)}

\* What the other positions of a states vector hold in the calls made (a
\* peer's partial; C4 replaces it by every value of PartialValues).
FillerValues == {UInt64(4)}

\* The states vector of len elements holding x at position depth (from 0)
\* and y everywhere else.
StatesWith(len, depth, x, y) ==
    [i \in 1..len |-> IF i = depth + 1 THEN x ELSE y]

\* No number of the value exceeds MaxTotal.
RECURSIVE Bounded(_)
Bounded(x) ==
    CASE x.tag = "UInt64" -> x.v <= MaxTotal
      [] x.tag = "Float64" -> x.n <= MaxTotal * x.d
      [] x.tag = "Struct" -> \A i \in 1..Len(x.vs) : Bounded(x.vs[i])
      [] OTHER -> TRUE

(***************************************************************************)
(* One instance driven by any sequence of calls.                           *)
(*   agg         the instance                                              *)
(*   call        the last call: its name, how it ended and what it         *)
(*               returned (for the factory call also the operator and the  *)
(*               argument list it was given)                               *)
(*   local_rows  rows of the blocks accumulated with success by an         *)
(*               instance no merge has changed (0 once one has)            *)
(*   merged      whether a merge has succeeded                             *)
(*   best        for a Min or Max instance, the least (greatest) of the    *)
(*               values folded into the state so far, Null when none       *)
(*   assoc, pipe the runs of SpecAssoc and SpecPart (below), unused here   *)
(***************************************************************************)
VARIABLES agg, call, local_rows, merged, best, assoc, pipe

vars == <<agg, call, local_rows, merged, best, assoc, pipe>>

\* The value of assoc and pipe outside their own specifications (below).
NoRun == [phase |-> "none"]

Call(name, res, out) == [name |-> name, res |-> res, out |-> out]

ArgLists == {<<>>, <<"x">>, <<"x", "y">>}

Init ==
    \E op \in Operators, args \in ArgLists :
        LET r == Factory(op, args)
        IN  /\ agg = r.self
            /\ call = [name |-> "try_create", res |-> r.res,
                       out |-> IF r.res = "Err" THEN <<r.err>> ELSE <<>>,
                       op |-> op, args |-> args]
            /\ local_rows = 0
            /\ merged = FALSE
            /\ best = Null
            /\ assoc = NoRun
            /\ pipe = NoRun

\* The instance exists and the program has not aborted.
Live == agg.op # "None" /\ call.res # "Panic"

\* The states vectors merge is called with: any partial at the depth of the
\* instance, a filler elsewhere; vectors too short for the depth as well.
MergeInputs(self) ==
    {StatesWith(len, self.depth, x, y) :
        len \in 0..(MaxDepth + 1), x \in PartialValues, y \in FillerValues}

\* x <= y of two numeric values, as numbers.
NumLE(x, y) ==
    LET a == IF x.tag = "UInt64" THEN Float64(x.v, 1) ELSE x
        b == IF y.tag = "UInt64" THEN Float64(y.v, 1) ELSE y
    IN  a.n * b.d <= b.n * a.d

\* The least (Min) or greatest (Max) of best and the values xs, by plain
\* comparison of numbers; a value that is no number is kept only as the
\* first one.
RECURSIVE Extreme(_, _, _)
Extreme(op, b, xs) ==
    IF xs = <<>> THEN b
    ELSE LET x == Head(xs)
             nb == IF b.tag = "Null" THEN x
                   ELSE IF x.tag = "Null" THEN b
                   ELSE IF ~(IsNumeric(b) /\ IsNumeric(x)) THEN b
                   ELSE IF op = "Min"
                   THEN (IF NumLE(b, x) THEN b ELSE x)
                   ELSE (IF NumLE(b, x) THEN x ELSE b)
         IN  Extreme(op, nb, Tail(xs))

Accumulate(block) ==
    LET r == accumulate(agg, block)
    IN  /\ Live
        /\ Bounded(r.self.state)
        /\ local_rows + block.rows <= MaxTotal
        /\ agg' = r.self
        /\ call' = Call("accumulate", r.res, <<>>)
        /\ local_rows' = IF r.res = "Ok" /\ ~merged
                         THEN local_rows + block.rows ELSE local_rows
        /\ best' = IF r.res = "Ok" /\ agg.op \in {"Min", "Max"}
                   THEN Extreme(agg.op, best, to_array(block.val.v, block.rows).v)
                   ELSE best
        /\ UNCHANGED <<merged, assoc, pipe>>

Merge(states) ==
    LET r == merge(agg, states)
    IN  /\ Live
        /\ Bounded(r.self.state)
        /\ agg' = r.self
        /\ call' = Call("merge", r.res, <<>>)
        /\ merged' = (merged \/ r.res = "Ok")
        /\ local_rows' = IF r.res = "Ok" THEN 0 ELSE local_rows
        /\ best' = IF r.res = "Ok" /\ agg.op \in {"Min", "Max"}
                   THEN Extreme(agg.op, best, <<states[agg.depth + 1]>>)
                   ELSE best
        /\ UNCHANGED <<assoc, pipe>>

SetDepth(depth) ==
    /\ Live
    /\ agg' = set_depth(agg, depth)
    /\ call' = Call("set_depth", "Ok", <<>>)
    /\ UNCHANGED <<local_rows, merged, best, assoc, pipe>>

AccumulateResult ==
    /\ Live
    /\ call' = Call("accumulate_result", "Ok", accumulate_result(agg))
    /\ UNCHANGED <<agg, local_rows, merged, best, assoc, pipe>>

MergeResult ==
    LET r == merge_result(agg)
    IN  /\ Live
        /\ call' = Call("merge_result", r.res, <<r.v>>)
        /\ UNCHANGED <<agg, local_rows, merged, best, assoc, pipe>>

ReturnType(input_schema) ==
    LET r == return_type(agg, input_schema)
    IN  /\ Live
        /\ call' = Call("return_type", r.res, <<r.v>>)
        /\ UNCHANGED <<agg, local_rows, merged, best, assoc, pipe>>

Nullable(input_schema) ==
    LET r == nullable(agg, input_schema)
    IN  /\ Live
        /\ call' = Call("nullable", r.res, <<r.v>>)
        /\ UNCHANGED <<agg, local_rows, merged, best, assoc, pipe>>

Next ==
    \/ \E block \in Blocks : Accumulate(block)
    \/ \E states \in MergeInputs(agg) : Merge(states)
    \/ \E depth \in 0..MaxDepth : SetDepth(depth)
    \/ AccumulateResult
    \/ MergeResult
    \/ \E input_schema \in Schemas : ReturnType(input_schema)
    \/ \E input_schema \in Schemas : Nullable(input_schema)

Spec == Init /\ [][Next]_vars

(***************************************************************************)
(* Claims checked under Spec.                                              *)
(***************************************************************************)

\* The states vectors of MergeInputs long enough for the depth of self.
InRange(self) == {states \in MergeInputs(self) : self.depth < Len(states)}

\* The array of the values of the argument over all the rows of the block.
AllRows(block) == to_array(block.val.v, block.rows)

\* C3 (the claim as stated): Avg accumulate sums over all rows: from state
\* Struct([s, c]), accumulate of a block of n rows leaves
\* Struct([s + sum of the argument over all n rows, c + n]); accumulating
\* [2, 4, 6] from the initial state gives Struct([Float64(12), UInt64(3)])
\* and merge_result Float64(4).
C3_AvgSumsAllRows ==
    agg.op = "Avg" =>
        /\ \A block \in {b \in Blocks : b.val.ok} :
               LET all   == data_array_aggregate_op("Sum", AllRows(block).v)
                   sum   == data_value_arithmetic_op(
                                "Add", agg.state.vs[1], all.v)
                   count == data_value_arithmetic_op(
                                "Add", agg.state.vs[2], UInt64(block.rows))
               IN  accumulate(agg, block).self.state
                       = Struct(<<sum.v, count.v>>)
        /\ LET fresh == try_create("Avg", <<"x">>).self
               after == accumulate(fresh, Block(3, Ok(ColumnArray(
                            <<UInt64(2), UInt64(4), UInt64(6)>>)))).self
           IN  /\ after.state = Struct(<<Float64(12, 1), UInt64(3)>>)
               /\ merge_result(after) = [res |-> "Ok", v |-> Float64(4, 1)]

\* What the code leaves instead: after one block of the values [2, 4, 6] an
\* Avg instance holds the sum of the first row only, with the count 3.
C3_Witness ==
    /\ call.name = "accumulate" /\ call.res = "Ok"
    /\ agg.op = "Avg" /\ local_rows = 3 /\ ~merged
    /\ agg.state = Struct(<<Float64(2, 1), UInt64(3)>>)
    /\ merge_result(agg).v # Float64(4, 1)

\* C4: merge selects by depth: with depth < len(states), the instance merge
\* leaves and how merge ends depend only on the instance and
\* states[depth]; any other element may be replaced by any value.
C4_MergeSelectsByDepth ==
    Live =>
        \A states \in InRange(agg) :
            \A i \in (1..Len(states)) \ {agg.depth + 1}, v \in PartialValues :
                merge(agg, [states EXCEPT ![i] = v]) = merge(agg, states)

\* A merge at depth 1 has folded the partial UInt64(3), and neither filler,
\* into a fresh Count instance.
C4_Witness ==
    /\ call.name = "merge" /\ call.res = "Ok"
    /\ agg.op = "Count" /\ agg.depth = 1
    /\ agg.state = UInt64(3)

\* C6: no partial update on failure: a call of accumulate that returns an
\* error leaves state and depth (the whole instance) as they were.
C6_NoPartialUpdate ==
    [][call'.name = "accumulate" /\ call'.res = "Err" => agg' = agg]_vars

\* accumulate has failed on an instance that had made progress.
C6_Witness ==
    /\ call.name = "accumulate" /\ call.res = "Err"
    /\ (merged \/ local_rows > 0)

\* C7: Count running total: with no merge, the state of a Count instance
\* is UInt64(n), n the rows of all the blocks accumulated, and
\* accumulate_result() is [UInt64(n)].
C7_CountRunningTotal ==
    (agg.op = "Count" /\ ~merged) =>
        /\ agg.state = UInt64(local_rows)
        /\ accumulate_result(agg) = <<UInt64(local_rows)>>
        /\ (call.name = "accumulate_result" => call.out = <<UInt64(local_rows)>>)

\* accumulate_result() of a Count instance has returned [UInt64(8)] after 8
\* rows (a 5-row and a 3-row block).
C7_Witness ==
    /\ agg.op = "Count" /\ ~merged /\ local_rows = 8
    /\ call.name = "accumulate_result" /\ call.out = <<UInt64(8)>>

\* The partial states a Count instance ships: UInt64 values.
CountPartials == {x \in PartialValues : x.tag = "UInt64"}

\* C8: merge composition for Count and Sum: with a numeric state s and a
\* numeric states[depth] = p, merge sets the state to arithmetic(Add, s, p);
\* merging the Count partials 3 and 4 in turn into a fresh Count instance
\* gives UInt64(7), and the order in which Count partials are merged does
\* not change the result.
C8_MergeAdds ==
    /\ (Live /\ agg.op \in {"Count", "Sum"} /\ IsNumeric(agg.state)) =>
           \A states \in InRange(agg) :
               LET p == states[agg.depth + 1]
               IN  IsNumeric(p) =>
                       merge(agg, states) = Done([agg EXCEPT !.state =
                           data_value_arithmetic_op("Add", agg.state, p).v])
    /\ (Live /\ agg.op = "Count" /\ agg.state.tag = "UInt64") =>
           \A p \in CountPartials, q \in CountPartials, len \in 1..(MaxDepth + 1) :
               agg.depth < len =>
                   LET ps == StatesWith(len, agg.depth, p, Null)
                       qs == StatesWith(len, agg.depth, q, Null)
                   IN  merge(merge(agg, ps).self, qs)
                           = merge(merge(agg, qs).self, ps)
    /\ LET fresh == try_create("Count", <<"x">>).self
       IN  merge(merge(fresh, <<UInt64(3)>>).self, <<UInt64(4)>>)
               = Done([fresh EXCEPT !.state = UInt64(7)])

\* The partials 3 and 4 have been merged into a Count instance that
\* accumulated nothing.
C8_Witness ==
    /\ call.name = "merge" /\ call.res = "Ok"
    /\ agg.op = "Count" /\ agg.depth = 0
    /\ agg.state = UInt64(7)

\* x and y are the same number.
NumEq(x, y) == NumLE(x, y) /\ NumLE(y, x)

\* C9: Null is the identity of the Min and Max state: merging x into a Null
\* state sets the state to x, merging Null leaves the state, and otherwise
\* the state becomes the min (max) of the old state and states[depth]; so
\* after any calls of accumulate and merge the state is Null or the min
\* (max) of every value folded so far.
C9_EmptyIdentity ==
    (Live /\ agg.op \in {"Min", "Max"}) =>
        /\ \A states \in InRange(agg) :
               LET x == states[agg.depth + 1]
                   r == merge(agg, states)
               IN  /\ agg.state = Null => r = Done([agg EXCEPT !.state = x])
                   /\ x = Null => r = Done(agg)
                   /\ (IsNumeric(agg.state) /\ IsNumeric(x)) =>
                          /\ r.res = "Ok"
                          /\ IsNumeric(r.self.state)
                          /\ r.self = [agg EXCEPT !.state = r.self.state]
                          /\ NumEq(r.self.state, agg.state) \/ NumEq(r.self.state, x)
                          /\ IF agg.op = "Min"
                             THEN NumLE(r.self.state, agg.state) /\ NumLE(r.self.state, x)
                             ELSE NumLE(agg.state, r.self.state) /\ NumLE(x, r.self.state)
        /\ (best = Null) = (agg.state = Null)
        /\ IsNumeric(best) => (IsNumeric(agg.state) /\ NumEq(agg.state, best))
        /\ ~IsNumeric(best) => agg.state = best

\* A Max instance that accumulated the value 1 has merged a Null partial
\* and still holds 1 (every numeric partial offered to merge exceeds 1).
C9_Witness ==
    /\ call.name = "merge" /\ call.res = "Ok"
    /\ agg.op = "Max" /\ merged
    /\ agg.state = UInt64(1) /\ best = UInt64(1)

\* C10: Avg merge: with state Struct([s, c]) and states[depth] =
\* Struct([s2, c2]) merge sets the state to Struct([s + s2, c + c2]); when
\* states[depth] or the state is not a Struct, merge returns Ok and leaves
\* the state.
C10_AvgMerge ==
    (Live /\ agg.op = "Avg") =>
        \A states \in InRange(agg) :
            LET x == states[agg.depth + 1]
                r == merge(agg, states)
            IN  /\ (x.tag # "Struct" \/ agg.state.tag # "Struct") => r = Done(agg)
                /\ (x.tag = "Struct" /\ agg.state.tag = "Struct"
                        /\ Len(x.vs) = 2 /\ Len(agg.state.vs) = 2) =>
                       LET sum   == data_value_arithmetic_op(
                                        "Add", agg.state.vs[1], x.vs[1])
                           count == data_value_arithmetic_op(
                                        "Add", agg.state.vs[2], x.vs[2])
                       IN  (sum.ok /\ count.ok) =>
                               r = Done([agg EXCEPT !.state =
                                            Struct(<<sum.v, count.v>>)])

\* An Avg instance that accumulated one row has merged the partial
\* Struct([Float64(2), UInt64(1)]).
C10_Witness ==
    /\ call.name = "merge" /\ call.res = "Ok"
    /\ agg.op = "Avg" /\ merged
    /\ agg.state = Struct(<<Float64(3, 1), UInt64(2)>>)

\* C11: finalization: the last call being merge_result, on an Avg instance
\* of state Struct([s, c]) it returned arithmetic(Div, s, c) (its value
\* when the division succeeds, which is never the Struct itself, its error
\* otherwise); on a Count, Min, Max or Sum instance it returned the state
\* verbatim, the single element of accumulate_result().
C11_Finalization ==
    call.name = "merge_result" =>
        IF agg.op = "Avg"
        THEN (agg.state.tag = "Struct" /\ Len(agg.state.vs) = 2) =>
                 LET q == data_value_arithmetic_op(
                              "Div", agg.state.vs[1], agg.state.vs[2])
                 IN  /\ call.res = IF q.ok THEN "Ok" ELSE "Err"
                     /\ q.ok => /\ call.out = <<q.v>>
                                /\ q.v # agg.state
        ELSE /\ call.res = "Ok"
             /\ call.out = <<agg.state>>
             /\ call.out = accumulate_result(agg)

\* merge_result() of an Avg instance holding the merged sums 3 and the
\* merged counts 2 has returned 3/2.
C11_Witness ==
    /\ call.name = "merge_result" /\ call.res = "Ok"
    /\ agg.op = "Avg" /\ merged
    /\ agg.state = Struct(<<Float64(3, 1), UInt64(2)>>)
    /\ call.out = <<Float64(3, 2)>>

\* C12: zero-count finalization fails: merge_result() of an Avg instance
\* whose count is UInt64(0) returns an error, and a merge_result() that
\* returns an error leaves the instance as it was.
C12_ZeroCountFails ==
    [][call'.name = "merge_result" =>
          /\ (/\ agg.op = "Avg" /\ agg.state.tag = "Struct"
              /\ Len(agg.state.vs) = 2 /\ agg.state.vs[2] = UInt64(0))
                 => call'.res = "Err"
          /\ call'.res = "Err" => agg' = agg]_vars

\* merge_result() has failed on an Avg instance whose count is still zero
\* after a merge (of a partial that is no Struct).
C12_Witness ==
    /\ call.name = "merge_result" /\ call.res = "Err"
    /\ agg.op = "Avg" /\ merged
    /\ agg.state.vs[2] = UInt64(0)

\* C13: arity validation: the factory of every operator, given an argument
\* list of length other than 1, returns a construction error that names
\* the operator and produces no instance; given exactly one argument it
\* succeeds and binds that argument.
C13_ArityValidation ==
    call.name = "try_create" =>
        IF Len(call.args) # 1
        THEN /\ call.res = "Err"
             /\ agg = NoInstance
             /\ Len(call.out) = 1
             /\ call.out[1].kind = "Internal"
             /\ \E i \in DOMAIN call.out[1].text : call.out[1].text[i] = call.op
        ELSE /\ call.res = "Ok"
             /\ agg.op = call.op
             /\ agg.arg = call.args[1]

\* The Sum factory has been called with two arguments and has returned the
\* error.
C13_Witness ==
    /\ call.name = "try_create" /\ call.op = "Sum" /\ Len(call.args) = 2
    /\ call.res = "Err" /\ agg = NoInstance

\* The initial state of an operator (spec.md section 3).
InitialState(op) ==
    CASE op = "Count" -> UInt64(0)
      [] op = "Avg" -> Struct(<<Float64(0, 1), UInt64(0)>>)
      [] op \in {"Min", "Max", "Sum"} -> Null

\* C14: initial state: the instance a successful factory call returns has
\* depth 0 and the state UInt64(0) for Count, Struct([Float64(0),
\* UInt64(0)]) for Avg and Null for Min, Max and Sum, and
\* accumulate_result() called first returns exactly that state.
C14_InitialState ==
    [][(call.name = "try_create" /\ call.res = "Ok") =>
          /\ agg.depth = 0
          /\ agg.state = InitialState(agg.op)
          /\ call'.name = "accumulate_result"
                 => call'.out = <<InitialState(agg.op)>>]_vars

\* accumulate_result() of a Sum instance nothing was folded into has
\* returned [Null].
C14_Witness ==
    /\ call.name = "accumulate_result" /\ call.out = <<Null>>
    /\ agg.op = "Sum" /\ agg.depth = 0 /\ ~merged /\ local_rows = 0

\* C15: out-of-range depth is fatal: for every operator, merge(states)
\* with depth >= len(states) (the empty states at depth 0 included) neither
\* returns an error nor succeeds: it panics, the state as it was.
C15_OutOfRangeDepthPanics ==
    Live =>
        \A states \in MergeInputs(agg) :
            agg.depth >= Len(states) => merge(agg, states) = Panicked(agg)

\* A Count instance of depth 0 that had merged the partial 3 has panicked
\* in a merge of the empty states.
C15_Witness ==
    /\ call.name = "merge" /\ call.res = "Panic"
    /\ agg.op = "Count" /\ agg.depth = 0
    /\ merged /\ agg.state = UInt64(3)

\* C16 (the claim as stated): malformed Struct arity is reported as an
\* error: the merge of an Avg instance given a states[depth] that is a
\* Struct of 0, 1 or 3 elements returns the error, without a panic and
\* without success, and leaves the state.
C16_MalformedArityIsError ==
    (Live /\ agg.op = "Avg" /\ agg.state.tag = "Struct") =>
        \A states \in InRange(agg) :
            LET x == states[agg.depth + 1]
            IN  (x.tag = "Struct" /\ Len(x.vs) # 2) =>
                    merge(agg, states) = Failed(agg)

\* The methods that take the instance by shared reference.
Reads == {"accumulate_result", "merge_result", "nullable", "return_type"}

\* C17: reads do not mutate: accumulate_result() returns exactly one
\* element, the current state; accumulate_result(), merge_result(),
\* nullable() and return_type() leave the instance as it was; and a read
\* repeated right after itself returns what it returned before, also when
\* that was the error of merge_result().
C17_ReadsDoNotMutate ==
    [][call'.name \in Reads =>
          /\ agg' = agg
          /\ call'.name = "accumulate_result" =>
                 (Len(call'.out) = 1 /\ call'.out[1] = agg.state)
          /\ (call.name = call'.name /\ call.name # "return_type") =>
                 call' = call]_vars

\* An Avg instance whose merge_result() fails (its count is zero after a
\* merge) has been read by accumulate_result(), which returned the state.
C17_Witness ==
    /\ call.name = "accumulate_result"
    /\ agg.op = "Avg" /\ merged /\ agg.state.vs[2] = UInt64(0)
    /\ call.out = <<agg.state>>

\* What accumulate, accumulate_result, merge_result and set_depth do does
\* not depend on the depth of self, and merge after set_depth(d) folds the
\* element d of states.
DepthOnlyInMerge(self) ==
    \A d \in 0..MaxDepth :
        LET other == set_depth(self, d)
        IN  /\ other = [self EXCEPT !.depth = d]
            /\ accumulate_result(other) = accumulate_result(self)
            /\ merge_result(other) = merge_result(self)
            /\ \A block \in Blocks :
                   LET r == accumulate(self, block)
                   IN  accumulate(other, block)
                           = [r EXCEPT !.self = set_depth(r.self, d)]
            /\ \A x \in PartialValues, y \in FillerValues :
                   LET r == merge(set_depth(self, 0), <<x>>)
                   IN  merge(other, StatesWith(MaxDepth + 1, d, x, y))
                           = [r EXCEPT !.self = set_depth(r.self, d)]

\* C18: set_depth has no effect until merge: set_depth changes only the
\* depth; accumulate, accumulate_result and merge_result do not depend on
\* the depth; no call changes the operator; no call but set_depth changes
\* the depth (0 after construction); merge folds the element at the depth
\* of the most recent set_depth.
C18_SetDepthFrame ==
    /\ [](Live => DepthOnlyInMerge(agg))
    /\ []((call.name = "try_create" /\ call.res = "Ok") => agg.depth = 0)
    /\ [][/\ agg'.op = agg.op
          /\ call'.name = "set_depth" => agg' = [agg EXCEPT !.depth = agg'.depth]
          /\ call'.name # "set_depth" => agg'.depth = agg.depth]_vars

\* A Count instance that was given depth 2 holds 5: the rows it
\* accumulated and the element 2 of the states it merged (1 and 4, or 2
\* and 3).
C18_Witness ==
    /\ call.name = "merge" /\ call.res = "Ok"
    /\ agg.op = "Count" /\ agg.depth = 2
    /\ agg.state = UInt64(5)

(***************************************************************************)
(* SpecAssoc: two fresh instances of one operator; split accumulates the   *)
(* blocks b1 and b2 in two calls, whole accumulates their concatenation in *)
(* one call.                                                               *)
(***************************************************************************)
ColumnTypes == {"UInt64", "Float64"}

ArrayBlock(xs) == Block(Len(xs), Ok(ColumnArray(xs)))

\* The block of the rows of b1 followed by the rows of b2.
concat(b1, b2) == ArrayBlock(b1.val.v.xs \o b2.val.v.xs)

Fresh(op) == try_create(op, <<"x">>).self

\* The single-instance variables, unused by the runs of the other
\* specifications.
NoDriver ==
    /\ agg = NoInstance
    /\ call = Call("none", "Ok", <<>>)
    /\ local_rows = 0
    /\ merged = FALSE
    /\ best = Null

driver == <<agg, call, local_rows, merged, best>>

InitAssoc ==
    /\ NoDriver
    /\ pipe = NoRun
    /\ \E op \in {"Count", "Sum", "Min", "Max"}, ty \in ColumnTypes :
           \E xs1, xs2 \in UNION {[1..len -> ColumnValues(ty)] : len \in 0..MaxRows} :
               assoc = [op |-> op, ty |-> ty,
                        b1 |-> ArrayBlock(xs1), b2 |-> ArrayBlock(xs2),
                        split |-> Fresh(op), whole |-> Fresh(op),
                        split_calls |-> 0, whole_calls |-> 0]

AccumulateSplit ==
    /\ assoc.split_calls < 2
    /\ LET block == IF assoc.split_calls = 0 THEN assoc.b1 ELSE assoc.b2
           r == accumulate(assoc.split, block)
       IN  assoc' = [assoc EXCEPT !.split = r.self,
                                 !.split_calls = @ + 1]
    /\ UNCHANGED <<driver, pipe>>

AccumulateWhole ==
    /\ assoc.whole_calls < 1
    /\ LET r == accumulate(assoc.whole, concat(assoc.b1, assoc.b2))
       IN  assoc' = [assoc EXCEPT !.whole = r.self,
                                 !.whole_calls = @ + 1]
    /\ UNCHANGED <<driver, pipe>>

NextAssoc == AccumulateSplit \/ AccumulateWhole

SpecAssoc == InitAssoc /\ [][NextAssoc]_vars

AssocDone == assoc.split_calls = 2 /\ assoc.whole_calls = 1

\* C1 (the claim as stated): for Count, Sum, Min and Max and every pair of
\* blocks, accumulate(B1); accumulate(B2) gives the same merge_result() as
\* accumulate(concat(B1, B2)).
C1_Associativity ==
    AssocDone => merge_result(assoc.split) = merge_result(assoc.whole)

\* C1 (amended): the same for Count, Min and Max over any column and for
\* Sum over a UInt64 column (a Sum over a Float64 column rounds after every
\* addition, and the two groupings may round differently).
C1_AssociativityExact ==
    (AssocDone /\ ~(assoc.op = "Sum" /\ assoc.ty = "Float64")) =>
        merge_result(assoc.split) = merge_result(assoc.whole)

\* Both instances have summed the UInt64 rows [8] and [1, 1] to 10.
C1_Witness ==
    /\ AssocDone
    /\ assoc.op = "Sum" /\ assoc.ty = "UInt64"
    /\ assoc.b1.rows = 1 /\ assoc.b2.rows = 2
    /\ merge_result(assoc.split) = [res |-> "Ok", v |-> UInt64(10)]
    /\ merge_result(assoc.whole) = [res |-> "Ok", v |-> UInt64(10)]

(***************************************************************************)
(* SpecAvg: one Avg instance at depth 0 driven by accumulate and by merge  *)
(* of states vectors of one element, a partial of any variant, and for a   *)
(* Struct of any arity and with elements of any variant.  assoc records    *)
(* whether every partial handed to merge so far was well formed in its     *)
(* count.                                                                  *)
(***************************************************************************)
AvgPartials ==
    PartialValues
    \cup {Struct(<<Float64(2, 1), Float64(1, 1)>>),
          Struct(<<UInt64(1), Null>>),
          Struct(<<Null, UInt64(1)>>),
          Struct(<<Float64(2, 1), Struct(<<>>)>>)}

\* The second element of a Struct partial, when it has one, is an unsigned
\* integer or Null.
CountIsUnsigned(x) ==
    (x.tag = "Struct" /\ Len(x.vs) >= 2) => x.vs[2].tag \in {"UInt64", "Null"}

InitAvg ==
    /\ agg = try_create_avg_func(<<"x">>).self
    /\ call = Call("try_create", "Ok", <<>>)
    /\ local_rows = 0
    /\ merged = FALSE
    /\ best = Null
    /\ pipe = NoRun
    /\ assoc = [phase |-> "avg", counts_unsigned |-> TRUE]

AvgAccumulate(block) ==
    LET r == accumulate(agg, block)
    IN  /\ Live
        /\ Bounded(r.self.state)
        /\ agg' = r.self
        /\ call' = Call("accumulate", r.res, <<>>)
        /\ UNCHANGED <<local_rows, merged, best, assoc, pipe>>

AvgMerge(states) ==
    LET r == merge(agg, states)
    IN  /\ Live
        /\ Bounded(r.self.state)
        /\ agg' = r.self
        /\ call' = Call("merge", r.res, <<>>)
        /\ merged' = (merged \/ r.res = "Ok")
        /\ assoc' = [assoc EXCEPT !.counts_unsigned =
                         @ /\ \A i \in DOMAIN states : CountIsUnsigned(states[i])]
        /\ UNCHANGED <<local_rows, best, pipe>>

NextAvg ==
    \/ \E block \in Blocks : AvgAccumulate(block)
    \/ \E states \in {<<>>} \cup {<<x>> : x \in AvgPartials} : AvgMerge(states)

SpecAvg == InitAvg /\ [][NextAvg]_vars

\* The state is a Struct of exactly two elements, a number and then an
\* unsigned integer.
AvgShape(state) ==
    /\ state.tag = "Struct"
    /\ Len(state.vs) = 2
    /\ IsNumeric(state.vs[1])
    /\ state.vs[2].tag = "UInt64"

\* C20 (the claim as stated): Avg state shape: after any accumulate and
\* merge calls that do not abort, with partials of any variant and any
\* Struct arity, the state of an Avg instance is a Struct of exactly two
\* elements [running_sum, running_count], running_count an unsigned
\* integer.
C20_AvgShape == Live => AvgShape(agg.state)

\* C20 (amended): the same while the second element of every Struct partial
\* handed to merge was an unsigned integer or Null (merge adds the second
\* elements without looking at their variant, and a Float64 added to the
\* count makes the count a Float64).
C20_AvgShapeGivenCounts ==
    (Live /\ assoc.counts_unsigned) => AvgShape(agg.state)

\* An Avg instance has merged a partial (of two elements, or of three with
\* the third dropped) and accumulated a row, and holds a sum and the count
\* 2.
C20_Witness ==
    /\ call.res = "Ok" /\ merged /\ assoc.counts_unsigned
    /\ agg.state = Struct(<<Float64(3, 1), UInt64(2)>>)

(***************************************************************************)
(* SpecPart: a pipeline of two partitions evaluating one or two aggregate  *)
(* expressions over one column.  Every partition owns one instance per     *)
(* expression and accumulates the blocks delivered to                      *)
(* it; the coordinator owns one fresh instance per expression, gives       *)
(* instance i the depth of its position, and merges the states vector of   *)
(* every partition, the concatenation in expression order of the           *)
(* accumulate_result() of the partition's instances.  single holds one     *)
(* instance per expression that accumulates every block itself.            *)
(***************************************************************************)
Partitions == {1, 2}

\* The aggregate expressions of a pipeline, in expression order.
ExprLists == UNION {[1..k -> Operators] : k \in {1, 2}}

\* The states vector a partition ships: its instances' accumulate_result()
\* concatenated in expression order.
RECURSIVE Shipped(_)
Shipped(instances) ==
    IF instances = <<>> THEN <<>>
    ELSE accumulate_result(Head(instances)) \o Shipped(Tail(instances))

InitPart ==
    /\ NoDriver
    /\ assoc = NoRun
    /\ \E exprs \in ExprLists, ty \in ColumnTypes :
           LET fresh == [i \in DOMAIN exprs |-> Fresh(exprs[i])]
           IN  pipe = [exprs |-> exprs, ty |-> ty,
                       parts |-> [p \in Partitions |-> fresh],
                       single |-> fresh,
                       coord |-> fresh,
                       delivered |-> 0,
                       assigned |-> FALSE,
                       order |-> <<>>]

Exprs == DOMAIN pipe.exprs

\* A block is delivered to partition p: each of its instances accumulates
\* it, and so does each instance of single.
Deliver(p, block) ==
    /\ ~pipe.assigned
    /\ pipe.delivered < MaxBatches
    /\ pipe' = [pipe EXCEPT
                   !.parts[p] = [i \in Exprs |-> accumulate(@[i], block).self],
                   !.single = [i \in Exprs |-> accumulate(@[i], block).self],
                   !.delivered = @ + 1]
    /\ UNCHANGED <<driver, assoc>>

\* The scan is over: the orchestrator gives each coordinator instance the
\* depth of its position (from 0) in the expression order.
AssignDepths ==
    /\ ~pipe.assigned
    /\ pipe' = [pipe EXCEPT
                   !.coord = [i \in Exprs |-> set_depth(@[i], i - 1)],
                   !.assigned = TRUE]
    /\ UNCHANGED <<driver, assoc>>

\* The coordinator merges the states vector of partition p into each of
\* its instances.
Ship(p) ==
    /\ pipe.assigned
    /\ \A j \in 1..Len(pipe.order) : pipe.order[j] # p
    /\ LET states == Shipped(pipe.parts[p])
       IN  pipe' = [pipe EXCEPT
                       !.coord = [i \in Exprs |-> merge(@[i], states).self],
                       !.order = Append(@, p)]
    /\ UNCHANGED <<driver, assoc>>

NextPart ==
    \/ \E p \in Partitions :
           \E xs \in UNION {[1..len -> ColumnValues(pipe.ty)] : len \in 1..MaxRows} :
               Deliver(p, ArrayBlock(xs))
    \/ AssignDepths
    \/ \E p \in Partitions : Ship(p)

SpecPart == InitPart /\ [][NextPart]_vars

AllShipped == Len(pipe.order) = Cardinality(Partitions)

\* C2 (the claim as stated): for Count, Sum, Min and Max, however the
\* blocks are distributed over the partitions and in whatever order the
\* coordinator merges the partitions' accumulate_result(), its
\* merge_result() is that of one instance that accumulated every block.
C2_PartitionMerge ==
    AllShipped =>
        \A i \in Exprs :
            pipe.exprs[i] \in {"Count", "Sum", "Min", "Max"} =>
                merge_result(pipe.coord[i]) = merge_result(pipe.single[i])

\* C2 (amended): the same for Count, Min and Max over any column and for
\* Sum over a UInt64 column (the Float64 additions of a Sum round, and a
\* different grouping of the rows may round differently).
C2_PartitionMergeExact ==
    AllShipped =>
        \A i \in Exprs :
            (/\ pipe.exprs[i] \in {"Count", "Sum", "Min", "Max"}
             /\ ~(pipe.exprs[i] = "Sum" /\ pipe.ty = "Float64")) =>
                merge_result(pipe.coord[i]) = merge_result(pipe.single[i])

\* A coordinator of one Sum expression (depth 0, states vectors of one
\* element) has merged two partitions that each accumulated rows, to 10.
C2_Witness ==
    /\ AllShipped
    /\ pipe.exprs = <<"Sum">> /\ pipe.ty = "UInt64"
    /\ \A p \in Partitions : pipe.parts[p][1].state # Null
    /\ merge_result(pipe.coord[1]) = [res |-> "Ok", v |-> UInt64(10)]
    /\ merge_result(pipe.single[1]) = [res |-> "Ok", v |-> UInt64(10)]

\* The instance of expression i that merged, at depth 0 and in the order
\* the coordinator did, the i-th instance's state of each partition alone.
RECURSIVE OwnPartials(_, _)
OwnPartials(i, order) ==
    IF order = <<>> THEN Fresh(pipe.exprs[i])
    ELSE LET n == Len(order)
         IN  merge(OwnPartials(i, SubSeq(order, 1, n - 1)),
                   <<pipe.parts[order[n]][i].state>>).self

\* C5: depth assignment protocol: with depth = position for each of the
\* cooperating instances and states vectors concatenated in the same
\* order, the state of the coordinator's instance i after it merged the
\* partitions' vectors is the combination of the i-th aggregator's
\* partials of those partitions and of no other aggregator's.
C5_DepthProtocol ==
    pipe.assigned =>
        \A i \in Exprs :
            /\ pipe.coord[i].depth = i - 1
            /\ pipe.coord[i].state = OwnPartials(i, pipe.order).state

\* Count and Sum evaluated together over two partitions that each scanned a
\* row: the second coordinator instance holds the sum 9 of the partitions'
\* sums, not their row counts.
C5_Witness ==
    /\ AllShipped
    /\ pipe.exprs = <<"Count", "Sum">> /\ pipe.ty = "UInt64"
    /\ \A p \in Partitions : pipe.parts[p][1].state = UInt64(1)
    /\ pipe.coord[1].state = UInt64(2)
    /\ pipe.coord[2].state = UInt64(9)

====
